---- MODULE Spec2Model ----
(***************************************************************************)
(* Model of web/src/header-parser.ts: the header parser of JPI EDM files.  *)
(* parseHeader reads CR-LF terminated ASCII lines that start with "$",     *)
(* verifies each line's checksum, decodes its fields into the result, and  *)
(* stops at the "$L" line; findFlightPositions then resolves, for every    *)
(* flight of the index, the offset of its 28-byte binary header.           *)
(*                                                                         *)
(* Offsets are 0-based as in the source; the buffer `data` is a TLA+       *)
(* sequence, so the byte at offset i is data[i + 1].                       *)
(***************************************************************************)
EXTENDS Integers, Sequences, FiniteSets, TLC

VARIABLES
    data,              \* the Uint8Array handed to parseHeader
    pc,                \* "read" | "check" | "resolve" | "done" | "HeaderParseError" | "ChecksumError"
    pos,               \* parseHeader: pos
    cumulativeOffset,  \* parseHeader: cumulativeOffset
    result,            \* parseHeader: result (ParsedHeader)
    currentPos,        \* findFlightPositions: currentPos
    fi,                \* findFlightPositions: 1-based index of the next flight of the for loop
    cursors,           \* history: expectedPos handed to findFlightAtPosition, per flight
    probes,            \* history: the offsets whose bytes findFlightAtPosition read, per flight
    setCount,          \* history: number of assignments to result.binaryOffset
    linesRead,         \* history: [start, end] offsets of the lines the loop read
    layout,            \* fixture: how the binary region of the input was laid out
    mutated            \* fixture: the input is a one-byte mutation of a decoded input

vars == <<data, pc, pos, cumulativeOffset, result, currentPos, fi, cursors,
          probes, setCount, linesRead, layout, mutated>>

----------------------------------------------------------------------------
(* Bounds of the model *)

MaxLines == 2
MaxFlights == 3
MaxBody == 2

----------------------------------------------------------------------------
(* Characters and strings: a string is a sequence of character codes *)

FLIGHT_HEADER_SIZE == 28

CR == 13
LF == 10
DOLLAR == 36
STAR == 42
COMMA == 44

Min(a, b) == IF a < b THEN a ELSE b

\* s.slice(a, b) for 0 <= a
Slice(s, a, b) == SubSeq(s, a + 1, Min(b, Len(s)))

\* s.slice(a)
SliceFrom(s, a) == SubSeq(s, a + 1, Len(s))

\* TextDecoder('ascii') is the windows-1252 decoder: bytes 0x80..0x9F decode
\* to code points outside Latin-1, every other byte to itself.
DecodeByte(b) ==
    CASE b = 128 -> 8364 [] b = 130 -> 8218 [] b = 131 -> 402  [] b = 132 -> 8222
      [] b = 133 -> 8230 [] b = 134 -> 8224 [] b = 135 -> 8225 [] b = 136 -> 710
      [] b = 137 -> 8240 [] b = 138 -> 352  [] b = 139 -> 8249 [] b = 140 -> 338
      [] b = 142 -> 381  [] b = 145 -> 8216 [] b = 146 -> 8217 [] b = 147 -> 8220
      [] b = 148 -> 8221 [] b = 149 -> 8226 [] b = 150 -> 8211 [] b = 151 -> 8212
      [] b = 152 -> 732  [] b = 153 -> 8482 [] b = 154 -> 353  [] b = 155 -> 8250
      [] b = 156 -> 339  [] b = 158 -> 382  [] b = 159 -> 376
      [] OTHER -> b

Decode(bytes) == [i \in 1..Len(bytes) |-> DecodeByte(bytes[i])]

\* White space of String.prototype.trim and of parseInt's leading skip
IsWhite(c) == c \in {9, 10, 11, 12, 13, 32, 160, 5760, 8232, 8233, 8239, 8287, 12288, 65279}
                 \/ (c >= 8192 /\ c <= 8202)

\* Line terminators, which "." of a regular expression does not match
IsLineTerm(c) == c \in {10, 13, 8232, 8233}

IsHex(c) == (c >= 48 /\ c <= 57) \/ (c >= 65 /\ c <= 70) \/ (c >= 97 /\ c <= 102)

DigitVal(c) ==
    IF c >= 48 /\ c <= 57 THEN c - 48
    ELSE IF c >= 65 /\ c <= 90 THEN c - 55
    ELSE IF c >= 97 /\ c <= 122 THEN c - 87
    ELSE 99

RECURSIVE XorInt(_, _)
XorInt(a, b) ==
    IF a = 0 THEN b
    ELSE IF b = 0 THEN a
    ELSE (((a % 2) + (b % 2)) % 2) + (2 * XorInt(a \div 2, b \div 2))

\* s.indexOf(c): 0-based, -1 when absent
IndexOf(s, c) ==
    IF \E i \in 1..Len(s) : s[i] = c
    THEN (CHOOSE i \in 1..Len(s) : s[i] = c /\ \A j \in 1..(i - 1) : s[j] # c) - 1
    ELSE -1

StartsWith(s, p) == Len(s) >= Len(p) /\ SubSeq(s, 1, Len(p)) = p

TrimStartIdx(s) ==
    IF \E i \in 1..Len(s) : ~IsWhite(s[i])
    THEN CHOOSE i \in 1..Len(s) : ~IsWhite(s[i]) /\ \A j \in 1..(i - 1) : IsWhite(s[j])
    ELSE Len(s) + 1

TrimEndIdx(s) ==
    IF \E i \in 1..Len(s) : ~IsWhite(s[i])
    THEN CHOOSE i \in 1..Len(s) : ~IsWhite(s[i]) /\ \A j \in (i + 1)..Len(s) : IsWhite(s[j])
    ELSE 0

\* s.trim()
Trim(s) == SubSeq(s, TrimStartIdx(s), TrimEndIdx(s))

\* s.split(',')
RECURSIVE Split(_, _)
Split(s, sep) ==
    LET k == IndexOf(s, sep)
    IN  IF k = -1 THEN <<s>>
        ELSE <<Slice(s, 0, k)>> \o Split(SliceFrom(s, k + 1), sep)

\* a.join(',')
RECURSIVE Join(_, _)
Join(a, sep) ==
    IF Len(a) = 0 THEN <<>>
    ELSE IF Len(a) = 1 THEN a[1]
    ELSE a[1] \o <<sep>> \o Join(Tail(a), sep)

\* The digits of parseInt: the longest prefix of s of digits below radix
RECURSIVE ParseDigits(_, _, _, _)
ParseDigits(s, radix, acc, any) ==
    IF Len(s) > 0 /\ DigitVal(s[1]) < radix
    THEN ParseDigits(Tail(s), radix, acc * radix + DigitVal(s[1]), TRUE)
    ELSE [nan |-> ~any, v |-> acc]

\* parseInt(s, radix); radix 0 stands for an omitted radix. The result is
\* [nan |-> TRUE] for NaN and [nan |-> FALSE, v |-> n] for the number n.
ParseIntRadix(s, radix) ==
    LET t    == SubSeq(s, TrimStartIdx(s), Len(s))
        neg  == Len(t) > 0 /\ t[1] = 45
        u    == IF Len(t) > 0 /\ t[1] \in {43, 45} THEN Tail(t) ELSE t
        hexp == radix \in {0, 16} /\ Len(u) >= 2 /\ u[1] = 48 /\ u[2] \in {88, 120}
        w    == IF hexp THEN SubSeq(u, 3, Len(u)) ELSE u
        r    == IF hexp THEN 16 ELSE IF radix = 0 THEN 10 ELSE radix
        d    == ParseDigits(w, r, 0, FALSE)
    IN  [nan |-> d.nan, v |-> IF d.nan THEN 0 ELSE IF neg THEN 0 - d.v ELSE d.v]

\* fields[i] of a JavaScript array (0-based); undefined when out of range
HasField(fields, i) == i + 1 <= Len(fields)

\* parseInt(fields[i]) || 0 : NaN (also of the string "undefined") and 0 give 0
NumOrZero(fields, i) ==
    IF ~HasField(fields, i) THEN 0
    ELSE LET p == ParseIntRadix(fields[i + 1], 0) IN IF p.nan THEN 0 ELSE p.v

\* A JavaScript value of an optional numeric field
Undefined == [t |-> "undefined", v |-> 0]
NaN == [t |-> "NaN", v |-> 0]
Num(n) == [t |-> "number", v |-> n]

\* fields[i] ? parseInt(fields[i]) : undefined
\* (an absent field and the empty string are both falsy)
OptNum(fields, i) ==
    IF HasField(fields, i) /\ Len(fields[i + 1]) > 0
    THEN LET p == ParseIntRadix(fields[i + 1], 0) IN IF p.nan THEN NaN ELSE Num(p.v)
    ELSE Undefined

----------------------------------------------------------------------------
(* verifyChecksum and the record decoders *)

\* XOR of the character codes of s, as the loop of verifyChecksum computes it
RECURSIVE XorAll(_)
XorAll(s) == IF Len(s) = 0 THEN 0 ELSE XorInt(XorAll(SubSeq(s, 1, Len(s) - 1)), s[Len(s)])

\* The "*" verifyChecksum takes as the separator: line.indexOf('*')
ChecksumStar(line) == IndexOf(line, STAR)

\* verifyChecksum(line): TRUE when it throws ChecksumError
verifyChecksumThrows(line) ==
    LET starIndex == ChecksumStar(line)
        content   == Slice(line, 1, starIndex)
        expected  == ParseIntRadix(Slice(line, starIndex + 1, starIndex + 3), 16)
        calculated == XorAll(content)
    IN  IF starIndex = -1 THEN FALSE
        ELSE expected.nan \/ calculated # expected.v

\* line.replace(/\*[0-9A-Fa-f]{2}$/, '')
StripChecksum(line) ==
    LET n == Len(line)
    IN  IF n >= 3 /\ line[n - 2] = STAR /\ IsHex(line[n - 1]) /\ IsHex(line[n])
        THEN SubSeq(line, 1, n - 3)
        ELSE line

\* s.replace(/\*.*$/, ''): cut at the first "*" that no line terminator follows
StripStarTail(s) ==
    LET ok(i) == s[i] = STAR /\ \A j \in (i + 1)..Len(s) : ~IsLineTerm(s[j])
    IN  IF \E i \in 1..Len(s) : ok(i)
        THEN SubSeq(s, 1, (CHOOSE i \in 1..Len(s) : ok(i) /\ \A j \in 1..(i - 1) : ~ok(j)) - 1)
        ELSE s

parseTailNumber(fields) == Trim(StripStarTail(Join(fields, COMMA)))

parseAlarmLimits(fields) ==
    [voltsHigh |-> NumOrZero(fields, 0), voltsLow |-> NumOrZero(fields, 1),
     dif |-> NumOrZero(fields, 2), cht |-> NumOrZero(fields, 3),
     cld |-> NumOrZero(fields, 4), tit |-> NumOrZero(fields, 5),
     oilHigh |-> NumOrZero(fields, 6), oilLow |-> NumOrZero(fields, 7)]

parseConfig(fields) ==
    [model |-> NumOrZero(fields, 0), flagsLow |-> NumOrZero(fields, 1),
     flagsHigh |-> NumOrZero(fields, 2),
     unknown1 |-> OptNum(fields, 3), unknown2 |-> OptNum(fields, 4),
     unknown3 |-> OptNum(fields, 5), unknown4 |-> OptNum(fields, 6),
     unknown5 |-> OptNum(fields, 7), unknown6 |-> OptNum(fields, 8)]

parseFlightIndex(fields, startOffset) ==
    LET dataWords == NumOrZero(fields, 1)
    IN  [flightNumber |-> NumOrZero(fields, 0), dataWords |-> dataWords,
         dataLength |-> dataWords * 2, startOffset |-> startOffset,
         actualOffset |-> -1]

parseFuelConfig(fields) ==
    [emptyWarning |-> NumOrZero(fields, 0), fullCapacity |-> NumOrZero(fields, 1),
     warningLevel |-> NumOrZero(fields, 2), kFactor1 |-> NumOrZero(fields, 3),
     kFactor2 |-> NumOrZero(fields, 4)]

parseTimestamp(fields) ==
    [month |-> NumOrZero(fields, 0), day |-> NumOrZero(fields, 1),
     year |-> NumOrZero(fields, 2), hour |-> NumOrZero(fields, 3),
     minute |-> NumOrZero(fields, 4), unknown |-> OptNum(fields, 5)]

\* content.slice(3).split(',').map(f => f.trim())
FieldsOf(content) ==
    LET raw == Split(SliceFrom(content, 3), COMMA)
    IN  [i \in 1..Len(raw) |-> Trim(raw[i])]

\* The ParsedHeader parseHeader starts from. A record that is null is the
\* empty sequence, a record that is set is the one-element sequence.
EmptyResult ==
    [tailNumber |-> <<>>, config |-> <<>>, alarmLimits |-> <<>>, fuelConfig |-> <<>>,
     flights |-> <<>>, timestamp |-> <<>>, binaryOffset |-> 0]

\* parseHeaderLine(line, result, cumulativeOffset) after verifyChecksum let it
\* pass: the result as the line leaves it, and the flight entry it returns
\* (the empty sequence for null).
parseHeaderLine(line, res, cum) ==
    LET content    == StripChecksum(line)
        recordType == IF Len(content) >= 2 THEN content[2] ELSE -1
        fields     == FieldsOf(content)
        entry      == parseFlightIndex(fields, cum)
    IN  CASE recordType = 85 -> [result |-> [res EXCEPT !.tailNumber = <<parseTailNumber(fields)>>], entry |-> <<>>]
          [] recordType = 65 -> [result |-> [res EXCEPT !.alarmLimits = <<parseAlarmLimits(fields)>>], entry |-> <<>>]
          [] recordType = 67 -> [result |-> [res EXCEPT !.config = <<parseConfig(fields)>>], entry |-> <<>>]
          [] recordType = 68 -> [result |-> [res EXCEPT !.flights = Append(@, entry)], entry |-> <<entry>>]
          [] recordType = 70 -> [result |-> [res EXCEPT !.fuelConfig = <<parseFuelConfig(fields)>>], entry |-> <<>>]
          [] recordType = 84 -> [result |-> [res EXCEPT !.timestamp = <<parseTimestamp(fields)>>], entry |-> <<>>]
          [] OTHER -> [result |-> res, entry |-> <<>>]

----------------------------------------------------------------------------
(* The flight position resolver *)

At(i) == data[i + 1]

\* dataView.getUint16(p, false)
Uint16At(p) == At(p) * 256 + At(p + 1)

isValidFlightHeader(p) ==
    LET interval == Uint16At(p + 22)
        dateBits == Uint16At(p + 24)
        day      == dateBits % 32
        month    == (dateBits \div 32) % 16
        year     == ((dateBits \div 512) % 128) + 2000
        timeBits == Uint16At(p + 26)
        secs     == (timeBits % 32) * 2
        mins     == (timeBits \div 32) % 64
        hrs      == (timeBits \div 2048) % 32
    IN  /\ ~(interval < 1 \/ interval > 60)
        /\ ~(day < 1 \/ day > 31 \/ month < 1 \/ month > 12 \/ year < 2000 \/ year > 2100)
        /\ ~(hrs > 23 \/ mins > 59 \/ secs > 59)

\* Mutant: the candidate one byte before the cursor is tried first
ProbeDeltas_Reversed == <<-1, 0>>

\* The order in which findFlightAtPosition tries its candidates
ProbeDeltas == <<0, -1>>

\* The range test of findFlightAtPosition: the candidate is not skipped
InRange(p) == ~(p < 0 \/ p + FLIGHT_HEADER_SIZE > Len(data))

\* The match test of findFlightAtPosition at a candidate that is in range
TagMatches(flightNumber, p) ==
    /\ At(p) = (flightNumber \div 256) % 256
    /\ At(p + 1) = flightNumber % 256

Accepts(flightNumber, p) == TagMatches(flightNumber, p) /\ isValidFlightHeader(p)

\* findFlightAtPosition(dataView, flightNumber, expectedPos): the offset found
\* (-2 stands for null) and the offsets whose bytes were read, in order
RECURSIVE ProbeFrom(_, _, _, _)
ProbeFrom(flightNumber, expectedPos, k, seen) ==
    IF k > Len(ProbeDeltas) THEN [found |-> -2, read |-> seen]
    ELSE LET p == expectedPos + ProbeDeltas[k]
         IN  IF ~InRange(p) THEN ProbeFrom(flightNumber, expectedPos, k + 1, seen)
             ELSE IF Accepts(flightNumber, p) THEN [found |-> p, read |-> Append(seen, p)]
             ELSE ProbeFrom(flightNumber, expectedPos, k + 1, Append(seen, p))

findFlightAtPosition(flightNumber, expectedPos) == ProbeFrom(flightNumber, expectedPos, 1, <<>>)

\* Mutant: a found flight moves the cursor by the header size
NextCursor_HeaderSize(cur, found, dataLength) ==
    IF found # -2 THEN found + FLIGHT_HEADER_SIZE ELSE cur + dataLength

\* Mutant: a flight that is not found leaves the cursor where it is
NextCursor_NoAdvance(cur, found, dataLength) ==
    IF found # -2 THEN found + dataLength ELSE cur

\* The cursor of findFlightPositions after a flight: foundOffset + dataLength
\* when the flight was found, currentPos + dataLength when it was not
NextCursor(cur, found, dataLength) ==
    IF found # -2 THEN found + dataLength ELSE cur + dataLength

----------------------------------------------------------------------------
(* Input buffers: header lines from a menu, then a binary region *)

HexDigit(d) == IF d < 10 THEN 48 + d ELSE 55 + d
Hex2(n) == <<HexDigit((n \div 16) % 16), HexDigit(n % 16)>>

RECURSIVE Dec(_)
Dec(n) == IF n < 10 THEN <<48 + n>> ELSE Dec(n \div 10) \o <<48 + (n % 10)>>

\* "$" content "*" hh, hh the XOR of the whole content
Sum(content) == <<DOLLAR>> \o content \o <<STAR>> \o Hex2(XorAll(content))

Terminated(line) == line \o <<CR, LF>>

LineTerminal == Sum(<<76, 44, 49>>)                       \* $L,1*51

LineMenu ==
    { Sum(<<85, 44, 78, 49, 50>>),                        \* $U,N12*34
      Sum(<<85, 44, 78, 42, 50>>),                        \* $U,N*2*2F  a "*" in the content
      <<36, 85, 44, 78, 42, 51, 55, 90, 42, 48, 48>>,     \* $U,N*37Z*00
      <<36, 85, 44, 78, 49, 50, 42, 48, 48>>,             \* $U,N12*00  wrong checksum
      <<36, 80, 44, 49>>,                                 \* $P,1       no checksum
      Sum(<<85, 44, 49, 88, 52, 56>>),                    \* $U,1X48*1C
      Sum(<<67, 44, 49, 44, 50, 44, 51>>),                \* $C,1,2,3*5F
      Sum(<<67, 44, 49, 44, 50, 44, 51, 44>>),            \* $C,1,2,3,*73
      Sum(<<67, 44, 49, 44, 50, 44, 51, 44, 120, 44, 55>>), \* $C,1,2,3,x,7*10
      Sum(<<65, 44, 49, 44, 50, 44, 51, 44, 52, 44, 53, 44, 54, 44, 55, 44, 56>>), \* $A,1,...,8
      Sum(<<70, 44, 49, 44, 50, 44, 51, 44, 52, 44, 53>>), \* $F,1,2,3,4,5
      Sum(<<84, 44, 49, 44, 50, 44, 51, 44, 52, 44, 53, 44, 54>>), \* $T,1,2,3,4,5,6
      Sum(<<68, 44, 55, 44, 49, 52>>),                    \* $D,7,14
      LineTerminal,
      <<88>> }                                            \* X          not a header line

\* What may follow the last terminated line: nothing, or an unterminated "$U"
TailMenu == { <<>>, <<36, 85>> }

RECURSIVE Concat(_)
Concat(ls) == IF Len(ls) = 0 THEN <<>> ELSE Terminated(ls[1]) \o Concat(Tail(ls))

RECURSIVE SeqsUpTo(_, _)
SeqsUpTo(S, n) ==
    IF n = 0 THEN { <<>> }
    ELSE LET prev == SeqsUpTo(S, n - 1)
         IN  prev \cup { Append(q, x) : q \in { r \in prev : Len(r) = n - 1 }, x \in S }

HeaderInputs == { Concat(ls) \o t : ls \in SeqsUpTo(LineMenu, MaxLines), t \in TailMenu }

\* A flight's 28-byte header: the tag, ten words of zero, the interval, the
\* date 2000-01-01, the time 00:00:00. A header that is not ok has interval 0.
FlightHeader(num, ok) ==
    <<(num \div 256) % 256, num % 256>> \o [i \in 1..20 |-> 0]
        \o <<0, IF ok THEN 1 ELSE 0>> \o <<0, 33>> \o <<0, 0>>

\* A flight of true length len: its header, then sample bytes
FlightBytes(f) == FlightHeader(f.num, f.ok) \o [i \in 1..(f.len - FLIGHT_HEADER_SIZE) |-> 255]

\* data_words = ceiling(actual_bytes / 2)
DeclaredWords(len) == (len + 1) \div 2

RECURSIVE Region(_)
Region(fs) == IF Len(fs) = 0 THEN <<>> ELSE FlightBytes(fs[1]) \o Region(Tail(fs))

\* $D,<flight number>,<data words>*hh
IndexLine(f) == Sum(<<68, 44>> \o Dec(f.num) \o <<44>> \o Dec(DeclaredWords(f.len)))

FlightLens == FLIGHT_HEADER_SIZE..(FLIGHT_HEADER_SIZE + MaxBody)

\* Flight numbers count up from base + 1; 2561 is 0x0A01
NumBases == {0, 2560}

Layouts ==
    UNION { { [flights |-> [i \in 1..n |-> [num |-> b + i, len |-> ls[i], ok |-> oks[i]]],
               shift |-> sh] :
                 b \in NumBases, sh \in {0, 1},
                 ls \in [1..n -> FlightLens], oks \in [1..n -> BOOLEAN] } :
            n \in 1..MaxFlights }

NoLayout == [flights |-> <<>>, shift |-> 0]

\* The file of a layout: the flight index, the terminal line, the flights
\* back to back. With shift 1 the region lacks its first byte.
LayoutInput(l) ==
    LET region == Region(l.flights)
    IN  Concat([i \in 1..Len(l.flights) |-> IndexLine(l.flights[i])] \o <<LineTerminal>>)
            \o SubSeq(region, 1 + l.shift, Len(region))

----------------------------------------------------------------------------
(* parseHeader as a state machine *)

Final == {"done", "HeaderParseError", "ChecksumError"}

\* The state of parseHeader(buf) before its loop
Start(buf, lay, mut) ==
    /\ data = buf
    /\ pc = "read"
    /\ pos = 0
    /\ cumulativeOffset = 0
    /\ result = EmptyResult
    /\ currentPos = 0
    /\ fi = 1
    /\ cursors = <<>>
    /\ probes = <<>>
    /\ setCount = 0
    /\ linesRead = <<>>
    /\ layout = lay
    /\ mutated = mut

\* parseHeader is called on a header without a binary region ...
InitHeader == \E buf \in HeaderInputs : Start(buf, NoLayout, FALSE)

\* ... or on the file of a layout
InitLayout == \E l \in Layouts : Start(LayoutInput(l), l, FALSE)

Init == InitHeader \/ InitLayout

\* The search for the next CR LF pair from pos: its offset, or -1
FindLineEnd(p) ==
    LET hit(i) == data[i + 1] = CR /\ data[i + 2] = LF
        range  == p..(Len(data) - 2)
    IN  IF \E i \in range : hit(i)
        THEN CHOOSE i \in range : hit(i) /\ \A j \in p..(i - 1) : ~hit(j)
        ELSE -1

\* One iteration of the while loop of parseHeader, or its exit
ReadLine ==
    /\ pc = "read"
    /\ \E lineEnd \in {FindLineEnd(pos)} :
       \E line \in {Decode(Slice(data, pos, lineEnd))} :
         IF ~(pos < Len(data)) \/ lineEnd = -1 \/ ~StartsWith(line, <<DOLLAR>>)
         THEN /\ pc' = "check"
              /\ UNCHANGED <<pos, cumulativeOffset, result, setCount, linesRead>>
         ELSE IF verifyChecksumThrows(line)
         THEN /\ pc' = "ChecksumError"
              /\ linesRead' = Append(linesRead, [start |-> pos, end |-> lineEnd])
              /\ UNCHANGED <<pos, cumulativeOffset, result, setCount>>
         ELSE \E parsed \in {parseHeaderLine(line, result, cumulativeOffset)} :
              \E isL \in {StartsWith(line, <<DOLLAR, 76>>)} :
              /\ cumulativeOffset' = IF parsed.entry # <<>>
                                     THEN cumulativeOffset + parsed.entry[1].dataLength
                                     ELSE cumulativeOffset
              /\ pos' = lineEnd + 2
              /\ linesRead' = Append(linesRead, [start |-> pos, end |-> lineEnd])
              /\ result' = IF isL THEN [parsed.result EXCEPT !.binaryOffset = lineEnd + 2]
                                  ELSE parsed.result
              /\ setCount' = IF isL THEN setCount + 1 ELSE setCount
              /\ pc' = IF isL THEN "check" ELSE "read"
    /\ UNCHANGED <<data, currentPos, fi, cursors, probes, layout, mutated>>

\* After the loop: the throw of HeaderParseError, or the call of
\* findFlightPositions up to its for loop
CheckTerminal ==
    /\ pc = "check"
    /\ IF result.binaryOffset = 0
       THEN pc' = "HeaderParseError" /\ UNCHANGED currentPos
       ELSE pc' = "resolve" /\ currentPos' = result.binaryOffset
    /\ UNCHANGED <<data, pos, cumulativeOffset, result, fi, cursors, probes,
                   setCount, linesRead, layout, mutated>>

\* One iteration of the for loop of findFlightPositions
ResolveFlight ==
    /\ pc = "resolve"
    /\ fi <= Len(result.flights)
    /\ LET flight == result.flights[fi]
           found  == findFlightAtPosition(flight.flightNumber, currentPos)
       IN  /\ result' = IF found.found # -2
                        THEN [result EXCEPT !.flights[fi].actualOffset = found.found]
                        ELSE result
           /\ currentPos' = NextCursor(currentPos, found.found, flight.dataLength)
           /\ cursors' = Append(cursors, currentPos)
           /\ probes' = Append(probes, found.read)
    /\ fi' = fi + 1
    /\ UNCHANGED <<data, pc, pos, cumulativeOffset, setCount, linesRead, layout, mutated>>

\* findFlightPositions is through; parseHeader returns result
Return ==
    /\ pc = "resolve"
    /\ fi > Len(result.flights)
    /\ pc' = "done"
    /\ UNCHANGED <<data, pos, cumulativeOffset, result, currentPos, fi, cursors,
                   probes, setCount, linesRead, layout, mutated>>

Next == ReadLine \/ CheckTerminal \/ ResolveFlight \/ Return

Spec == Init /\ [][Next]_vars

----------------------------------------------------------------------------
(* A second decode, of the first input with one byte of a line changed *)

\* The values a byte is changed to: "*", "A", 0x80
MutValues == {STAR, 65, 128}

\* After a successful decode: change one byte strictly between the "$" and
\* the first "*" of a line that was read and ends in "*" and two hex digits,
\* leave the checksum as it is, and decode again.
Mutate ==
    /\ pc = "done"
    /\ ~mutated
    /\ \E k \in 1..Len(linesRead), v \in MutValues :
         LET l    == linesRead[k]
             line == Slice(data, l.start, l.end)
             star == IndexOf(line, STAR)
         IN  /\ StripChecksum(Decode(line)) # Decode(line)
             /\ \E i \in 1..(star - 1) :
                  /\ line[i + 1] # v
                  /\ data' = [data EXCEPT ![l.start + i + 1] = v]
    /\ pc' = "read"
    /\ pos' = 0
    /\ cumulativeOffset' = 0
    /\ result' = EmptyResult
    /\ currentPos' = 0
    /\ fi' = 1
    /\ cursors' = <<>>
    /\ probes' = <<>>
    /\ setCount' = 0
    /\ linesRead' = <<>>
    /\ mutated' = TRUE
    /\ UNCHANGED layout

NextMut == Next \/ Mutate

SpecMut == InitHeader /\ [][NextMut]_vars

----------------------------------------------------------------------------
(* Vocabulary of the properties *)

Flights == result.flights
BinaryOffset == result.binaryOffset
Resolved(i) == Flights[i].actualOffset # -1

\* The k-th line the loop read, decoded
LineRead(k) == Decode(Slice(data, linesRead[k].start, linesRead[k].end))

\* verifyChecksum threw on the k-th line read
Rejected(k) == pc = "ChecksumError" /\ k = Len(linesRead)

\* The last "*" of a line (0-based), -1 when it has none
LastStar(line) ==
    IF \E i \in 1..Len(line) : line[i] = STAR
    THEN (CHOOSE i \in 1..Len(line) : line[i] = STAR /\ \A j \in (i + 1)..Len(line) : line[j] # STAR) - 1
    ELSE -1

\* The line carries a correct checksum as the format defines it: two
\* hexadecimal digits follow its last "*", and their value is the XOR of the
\* character codes strictly between the leading "$" and that "*"
CorrectChecksum(line) ==
    LET st == LastStar(line)
    IN  /\ st # -1
        /\ Len(line) >= st + 3
        /\ IsHex(line[st + 2]) /\ IsHex(line[st + 3])
        /\ DigitVal(line[st + 2]) * 16 + DigitVal(line[st + 3]) = XorAll(Slice(line, 1, st))

\* 0 unless every line from offset p up to and including the first "$L" line
\* starts with "$" and carries a correct checksum; then the offset of the
\* byte after the CR LF that ends that "$L" line
RECURSIVE TerminalEndFrom(_)
TerminalEndFrom(p) ==
    LET e    == FindLineEnd(p)
        line == Decode(Slice(data, p, e))
    IN  IF ~(p < Len(data)) \/ e = -1 THEN 0
        ELSE IF ~StartsWith(line, <<DOLLAR>>) \/ ~CorrectChecksum(line) THEN 0
        ELSE IF StartsWith(line, <<DOLLAR, 76>>) THEN e + 2
        ELSE TerminalEndFrom(e + 2)

\* Line reading from offset p ends (no CR LF pair, a line not starting with
\* "$", the end of the buffer) before any "$L" line, and every line read has
\* a correct checksum or none
RECURSIVE NoTerminalFrom(_)
NoTerminalFrom(p) ==
    LET e    == FindLineEnd(p)
        line == Decode(Slice(data, p, e))
    IN  IF ~(p < Len(data)) \/ e = -1 THEN TRUE
        ELSE IF ~StartsWith(line, <<DOLLAR>>) THEN TRUE
        ELSE IF StartsWith(line, <<DOLLAR, 76>>) THEN FALSE
        ELSE IF LastStar(line) # -1 /\ ~CorrectChecksum(line) THEN FALSE
        ELSE NoTerminalFrom(e + 2)

----------------------------------------------------------------------------
(* C1 *)

\* C1: when every line up to and including the first "$L" line starts with
\* "$" and carries a correct checksum, parseHeader ends by returning, with
\* binaryOffset the offset after the CR LF of the "$L" line, nonzero, and
\* assigned exactly once.
C1_TerminalOffset ==
    (TerminalEndFrom(0) # 0 /\ pc \in Final) =>
        /\ pc = "done"
        /\ BinaryOffset = TerminalEndFrom(0)
        /\ BinaryOffset # 0
        /\ setCount = 1

----------------------------------------------------------------------------
(* C2 *)

\* C2: after a successful decode, changing one byte strictly between the
\* "$" and the "*" of a checksummed line that was read makes the decode of
\* the changed input end in ChecksumError, never in HeaderParseError and
\* never in a result.
C2_MutationRejected ==
    (mutated /\ pc \in Final) => pc = "ChecksumError"

----------------------------------------------------------------------------
(* C3 *)

\* C3: when line reading ends before any "$L" line and every line read has a
\* correct checksum or none, parseHeader ends in HeaderParseError; the
\* resolver never runs and nothing is returned.
C3_NoTerminalFails ==
    NoTerminalFrom(0) =>
        /\ pc \notin {"resolve", "done"}
        /\ pc \in Final => pc = "HeaderParseError"

----------------------------------------------------------------------------
(* C4 *)

\* C4: a line that contains a "*" is rejected with ChecksumError exactly when
\* the two hexadecimal digits after its last "*" are not the XOR of the
\* characters between the leading "$" and that "*"; a line with a "*" in its
\* content and a correct trailing checksum is accepted.
C4_LastStarChecksum ==
    \A k \in 1..Len(linesRead) :
        LastStar(LineRead(k)) # -1 => (Rejected(k) <=> ~CorrectChecksum(LineRead(k)))

----------------------------------------------------------------------------
(* C5 *)

\* The 28-byte window at p lies within the binary region and the buffer
WithinRegion(p) == BinaryOffset <= p /\ p + FLIGHT_HEADER_SIZE <= Len(data)

\* C5: after parseHeader returns, every resolved flight's 28-byte window
\* starts at or after the binary-region start and ends within the buffer,
\* the first flight's too.
C5_ResolvedWithinRegion ==
    pc = "done" =>
        \A i \in 1..Len(Flights) : Resolved(i) => WithinRegion(Flights[i].actualOffset)

\* C5, the candidates read: the resolver reads the bytes of no candidate
\* whose window starts before the binary-region start or ends past the
\* buffer.
C5_ReadsWithinRegion ==
    \A j \in 1..Len(probes) : \A q \in 1..Len(probes[j]) : WithinRegion(probes[j][q])

----------------------------------------------------------------------------
(* C6 *)

\* The offset at which flight i of the layout truly starts
RECURSIVE TrueStart(_)
TrueStart(i) == IF i = 1 THEN BinaryOffset ELSE TrueStart(i - 1) + layout.flights[i - 1].len

\* The flights lie back to back from the binary-region start and all but
\* flight k carry a valid header
OnlyInvalid(k) ==
    /\ layout.shift = 0
    /\ \A j \in 1..Len(layout.flights) : layout.flights[j].ok <=> j # k

\* C6: when the header of one interior flight k is invalid and every other
\* header is valid, entry k stays unresolved and entry k + 1 resolves to its
\* true start, whatever the parities of the true lengths.
C6_ResolutionIndependent ==
    pc = "done" =>
        \A k \in 2..(Len(layout.flights) - 1) :
            OnlyInvalid(k) =>
                /\ ~Resolved(k)
                /\ Flights[k + 1].actualOffset = TrueStart(k + 1)

----------------------------------------------------------------------------
(* C7 *)

\* The binary region holds a valid header with the entry's tag at
\* binaryOffset + startOffset of every entry, no header overlapping the next
HeadersAtDeclaredOffsets ==
    /\ Len(Flights) >= 1
    /\ \A i \in 1..Len(Flights) :
          LET p == BinaryOffset + Flights[i].startOffset
          IN  /\ WithinRegion(p)
              /\ Accepts(Flights[i].flightNumber, p)
              /\ i < Len(Flights) => Flights[i].dataLength >= FLIGHT_HEADER_SIZE

\* C7: with a valid header at the declared offset of every entry, every
\* entry resolves and the resolved offsets increase strictly in catalog
\* order.
C7_AllResolveIncreasing ==
    (pc = "done" /\ HeadersAtDeclaredOffsets) =>
        /\ \A i \in 1..Len(Flights) : Resolved(i)
        /\ \A i \in 1..(Len(Flights) - 1) :
              Flights[i].actualOffset < Flights[i + 1].actualOffset

C7_Witness ==
    /\ pc = "done"
    /\ HeadersAtDeclaredOffsets
    /\ Len(Flights) >= 2
    /\ \E i \in 1..Len(Flights) : Flights[i].dataLength > FLIGHT_HEADER_SIZE

----------------------------------------------------------------------------
(* C8 *)

\* The candidate p is in range, carries the tag of flight j and passes the
\* plausibility check
Good(j, p) == InRange(p) /\ Accepts(Flights[j].flightNumber, p)

\* C8: for every flight the resolver has handled, with c its cursor: a good
\* candidate at c resolves the entry to c and c - 1 is not examined; a
\* rejected c and a good c - 1 resolve it to c - 1; c is examined before
\* c - 1, and nothing but c and c - 1 is examined or accepted.
C8_TwoCandidatesInOrder ==
    \A j \in 1..Len(cursors) :
        LET c  == cursors[j]
            ao == Flights[j].actualOffset
        IN  /\ Good(j, c) => (ao = c /\ probes[j] = <<c>>)
            /\ (~Good(j, c) /\ Good(j, c - 1)) =>
                   (ao = c - 1 /\ probes[j] = (IF InRange(c) THEN <<c>> ELSE <<>>) \o <<c - 1>>)
            /\ \A q \in 1..Len(probes[j]) : probes[j][q] \in {c, c - 1}
            /\ Len(probes[j]) = 2 => probes[j] = <<c, c - 1>>
            /\ ao \in {-1, c, c - 1}
            /\ ao # -1 => (Len(probes[j]) > 0 /\ probes[j][Len(probes[j])] = ao)

C8_Witness ==
    /\ pc = "done"
    /\ \E j \in 1..Len(cursors) : Good(j, cursors[j]) /\ Flights[j].actualOffset = cursors[j]
    /\ \E j \in 1..Len(cursors) :
          /\ InRange(cursors[j]) /\ ~Good(j, cursors[j])
          /\ Flights[j].actualOffset = cursors[j] - 1
    /\ \E j \in 1..Len(cursors) :
          /\ ~InRange(cursors[j])
          /\ Flights[j].actualOffset = cursors[j] - 1

----------------------------------------------------------------------------
(* C9 *)

\* The optional fields of a decoded config record, 4th to 9th
OptionalFields(c) == <<c.unknown1, c.unknown2, c.unknown3, c.unknown4, c.unknown5, c.unknown6>>

\* The k-th line read is a "$C" line that was decoded
ConfigLine(k) ==
    /\ ~Rejected(k)
    /\ Len(StripChecksum(LineRead(k))) >= 2
    /\ StripChecksum(LineRead(k))[2] = 67

\* A field that is empty or does not start with a number
Unparsable(f) == ParseIntRadix(f, 0).nan

\* C9: in the config record decoded from a "$C" line, an optional field
\* missing from the line is absent, and one present but empty or non-numeric
\* is the number 0, never absent and never NaN.
C9_OptionalConfigFields ==
    \A k \in 1..Len(linesRead) :
        (ConfigLine(k) /\ \A m \in (k + 1)..Len(linesRead) : ~ConfigLine(m)) =>
            LET fields == FieldsOf(StripChecksum(LineRead(k)))
                opt    == OptionalFields(result.config[1])
            IN  \A i \in 3..8 :
                    /\ ~HasField(fields, i) => opt[i - 2] = Undefined
                    /\ (HasField(fields, i) /\ Unparsable(fields[i + 1])) => opt[i - 2] = Num(0)

----------------------------------------------------------------------------
(* C10 *)

RECURSIVE DeclaredBefore(_)
\* The sum of the declared byte lengths, 2 * dataWords, of the entries before i
DeclaredBefore(i) == IF i = 1 THEN 0 ELSE DeclaredBefore(i - 1) + 2 * Flights[i - 1].dataWords

\* The number of entries before i that were resolved at their cursor - 1
Drift(i) == Cardinality({ j \in 1..(i - 1) : Resolved(j) /\ Flights[j].actualOffset = cursors[j] - 1 })

\* C10: the cursor at entry i is binaryOffset + startOffset(i) less the
\* number of earlier entries resolved at cursor - 1; startOffset(i) is the
\* sum of the earlier declared lengths; a resolved entry lies at most its
\* 1-based index below binaryOffset + startOffset(i) and never above it.
C10_BoundedDrift ==
    \A i \in 1..Len(cursors) :
        /\ Flights[i].startOffset = DeclaredBefore(i)
        /\ cursors[i] = BinaryOffset + Flights[i].startOffset - Drift(i)
        /\ Resolved(i) =>
              /\ BinaryOffset + Flights[i].startOffset - i <= Flights[i].actualOffset
              /\ Flights[i].actualOffset <= BinaryOffset + Flights[i].startOffset

C10_Witness ==
    /\ pc = "done"
    /\ \E i \in 1..Len(cursors) : Drift(i) >= 1 /\ Resolved(i)
    /\ \E i \in 1..Len(cursors) : ~Resolved(i) /\ i < Len(cursors)

====
